---- MODULE Spec2Model ----
(***************************************************************************)
(* Sliding-window-log rate limiter of src/rate_limiter_ip.py.              *)
(*                                                                         *)
(* rate_limit(max_calls, period) returns a decorator whose closure owns    *)
(* the dict `usage` (digest of the client address -> list of timestamps).  *)
(* The wrapped coroutine runs on one asyncio event loop: a coroutine is    *)
(* interrupted only at an await, and the only await of wrapper is          *)
(* `await func(request)` on line 38.  Lines 19-37 (or 19-45 on a raise)    *)
(* are therefore one step of the model, and the protected handler is       *)
(* another.                                                                *)
(*                                                                         *)
(* Time is counted in integer ticks.  time.time() is read as the variable  *)
(* clock, which the environment advances; the clock is taken to be         *)
(* non-decreasing (no backward step of the system clock).  A tick is       *)
(* shorter than the 0.01 s to which the 429 message rounds the wait        *)
(* (TicksPerCenti ticks make 0.01 s), so the rounding of `{wait:.2f}` is   *)
(* visible; rounding commutes with a shift by whole hundredths, so small   *)
(* periods show the same roundings as long ones.                           *)
(***************************************************************************)
EXTENDS Integers, Sequences, FiniteSets, Bags

\* ---- bounds of the model -------------------------------------------------
MaxTime == 2        \* the clock runs over 0..MaxTime
MaxCalls == 2       \* max_calls is drawn from ..MaxCalls
MaxPeriod == 2      \* period is drawn from ..MaxPeriod
NumRequests == 2    \* requests that can be in flight at once
MaxAdmitted == 3    \* admissions recorded in the history of a run

\* ---- values ---------------------------------------------------------------
None == "None"                      \* request.client is None
IPs == {"10.0.0.1", "10.0.0.2"}     \* request.client.host
Clients == IPs \cup {None}
Time == 0..MaxTime
NotRead == -1                       \* `now` of a call that has not reached line 30
TicksPerCenti == 3                  \* ticks in the 0.01 s of `{wait:.2f}`

\* LimiterConfig of the data model: both parameters positive.
ValidConfigs == (1..MaxCalls) \X (1..MaxPeriod)
\* What rate_limit accepts: it validates nothing (lines 12-14).
AnyConfigs == (0..MaxCalls) \X (0..MaxPeriod)

VARIABLES
    max_calls,   \* closure parameter of rate_limit
    period,      \* closure parameter of rate_limit
    usage,       \* dict unique_id -> list of timestamps
    clock,       \* the value time.time() returns
    requests,    \* bag of the wrapper calls in flight: [client, pc, now]
    last,        \* the outcome of the wrapper call that finished last
    admitted     \* history: unique_id -> every timestamp ever appended

vars == <<max_calls, period, usage, clock, requests, last, admitted>>

\* ---- pure parts of wrapper ------------------------------------------------

\* line 27: hashlib.sha256(ip.encode()).hexdigest(); distinct addresses give
\* distinct digests, and the digest is not the address.
\* faulty variant: every address gets the same digest
HashCollide(ip) == <<"sha256", "00">>
Hash(ip) == <<"sha256", ip>>

Digests == {Hash(ip) : ip \in IPs}

\* lines 31-33: the list of unique_id, created empty when absent.
Window(u, id) == IF id \in DOMAIN u THEN u[id] ELSE <<>>

\* lines 32-34, 37: usage[unique_id] now holds ts; other keys are untouched.
\* faulty variants: keys whose timestamps are all stale are swept;
\* `timestamps = [...]` rebinds the name, the dict keeps its list
StoreSweep(u, id, ts) ==
    [k \in {x \in DOMAIN u \cup {id} :
               x = id \/ SelectSeq(u[x], LAMBDA t : clock - t < period) # <<>>}
       |-> IF k = id THEN ts ELSE u[k]]
StoreRebound(u, id, ts) == [k \in DOMAIN u \cup {id} |-> Window(u, k)]
Store(u, id, ts) == [k \in DOMAIN u \cup {id} |-> IF k = id THEN ts ELSE u[k]]

\* line 34: timestamps[:] = [t for t in timestamps if now - t < period]
\* faulty variants: only the head is tested; a timestamp exactly period old
\* is kept
PruneHeadOnly(ts, now, p) ==
    IF ts # <<>> /\ now - ts[1] >= p THEN Tail(ts) ELSE ts
PruneInclusive(ts, now, p) == SelectSeq(ts, LAMBDA t : now - t <= p)
Prune(ts, now, p) == SelectSeq(ts, LAMBDA t : now - t < p)

\* line 36: len(timestamps) < max_calls
\* faulty variant: <= in place of <
HasSlotOffByOne(ts, mc) == Len(ts) <= mc
HasSlot(ts, mc) == Len(ts) < mc

\* line 37: timestamps.append(now)
\* faulty variant: timestamps.insert(0, now)
AfterAdmitPrepend(ts, now) == <<now>> \o ts
AfterAdmit(ts, now) == Append(ts, now)

\* lines 40-45: a rejected call leaves the pruned list as it is
\* faulty variant: a rejected call is recorded too
AfterRejectAppends(ts, now) == Append(ts, now)
AfterReject(ts, now) == ts

\* line 41: wait = period - (now - timestamps[0])
\* faulty variants: measured from the newest timestamp; the time gone by,
\* not the time left
WaitFromNewest(ts, now, p) == p - (now - ts[Len(ts)])
WaitElapsed(ts, now, p) == now - ts[1]
Wait(ts, now, p) == p - (now - ts[1])

\* line 44: f"{wait:.2f}", the wait rounded to the nearest hundredth of a
\* second (TicksPerCenti is odd, so no wait lies halfway), in hundredths
Format2(w) == (2 * w + TicksPerCenti) \div (2 * TicksPerCenti)

\* lines 54-55: what the protected endpoint returns
Func(c) == <<"message", "Hello, World!">>

\* ---- requests and responses -----------------------------------------------
\* a wrapper call not yet run (pc "pending", now not read) or suspended at
\* line 38 (pc "handler", its local `now` of line 30 being t)
Call(c, at, t) == [client |-> c, pc |-> at, now |-> t]
One(q) == SetToBag({q})

\* a response: status and exception, the body returned, the wait of line 41,
\* the wait as written in the detail, and the `now` of the call
Response(c, st, e, b, w, t) ==
    [client |-> c, status |-> st, exc |-> e, body |-> b,
     wait |-> w, detail |-> Format2(w), at |-> t]

NoBody == <<>>
NoResponse == Response(None, 0, "none", NoBody, 0, 0)
\* line 38: the result of func, returned unchanged
\* faulty variant: `await func(request)` without the return
OkNoReturn(c) == Response(c, 200, "none", NoBody, 0, 0)
Ok(c) == Response(c, 200, "none", Func(c), 0, 0)
\* lines 20-23
NoClientError == Response(None, 400, "HTTPException", NoBody, 0, 0)
\* lines 42-45
RateLimited(c, w, t) == Response(c, 429, "HTTPException", NoBody, w, t)
\* line 41 on an empty list: timestamps[0] raises IndexError
IndexError(c) == Response(c, 500, "IndexError", NoBody, 0, 0)
\* line 38: func raised
HandlerError(c) == Response(c, 500, "HandlerError", NoBody, 0, 0)

\* number of admissions recorded so far, over all keys
RECURSIVE SumLen(_, _)
SumLen(f, ks) ==
    IF ks = {} THEN 0
    ELSE LET k == CHOOSE x \in ks : TRUE IN Len(f[k]) + SumLen(f, ks \ {k})
TotalAdmitted == SumLen(admitted, DOMAIN admitted)

\* ---- initial state --------------------------------------------------------
InitWith(configs) ==
    /\ \E c \in configs : max_calls = c[1] /\ period = c[2]
    /\ usage = [k \in {} |-> <<>>]
    /\ clock = 0
    /\ requests = EmptyBag
    /\ last = NoResponse
    /\ admitted = [k \in Digests |-> <<>>]

Init == InitWith(ValidConfigs)
InitAny == InitWith(AnyConfigs)

\* ---- actions --------------------------------------------------------------

\* The system clock advances.
Tick ==
    /\ clock < MaxTime
    /\ clock' = clock + 1
    /\ UNCHANGED <<max_calls, period, usage, requests, last, admitted>>

\* The server dispatches a request of client c to the decorated endpoint.
Arrive(c) ==
    /\ BagCardinality(requests) < NumRequests
    /\ TotalAdmitted < MaxAdmitted
    /\ requests' = requests (+) One(Call(c, "pending", NotRead))
    /\ UNCHANGED <<max_calls, period, usage, clock, last, admitted>>

\* lines 19-23: no client information
\* faulty variant: the window is looked up before the client is tested
RejectNoClientAfterLookup(q) ==
    /\ q.pc = "pending"
    /\ q.client = None
    /\ last' = NoClientError
    /\ requests' = requests (-) One(q)
    /\ usage' = Store(usage, Hash(None), Window(usage, Hash(None)))
    /\ UNCHANGED admitted
RejectNoClient(q) ==
    /\ q.pc = "pending"
    /\ q.client = None
    /\ last' = NoClientError
    /\ requests' = requests (-) One(q)
    /\ UNCHANGED <<usage, admitted>>

\* lines 24-45 for a request that has a client
\* faulty variant: an await between the count (line 36) and the append (line 37)
CheckRacy(q) ==
    /\ q.client # None
    /\ LET id == Hash(q.client)
           now == clock
       IN \/ /\ q.pc = "pending"
             /\ HasSlot(Prune(Window(usage, id), now, period), max_calls)
             /\ requests' = (requests (-) One(q)) (+) One(Call(q.client, "observed", NotRead))
             /\ usage' = Store(usage, id, Prune(Window(usage, id), now, period))
             /\ UNCHANGED <<last, admitted>>
          \/ /\ q.pc = "observed"
             /\ usage' = Store(usage, id, Append(Window(usage, id), now))
             /\ admitted' = [admitted EXCEPT ![id] = Append(@, now)]
             /\ requests' = (requests (-) One(q)) (+) One(Call(q.client, "handler", now))
             /\ UNCHANGED last
Check(q) ==
    /\ q.pc = "pending"
    /\ q.client # None
    /\ LET id == Hash(q.client)
           now == clock
           ts == Prune(Window(usage, id), now, period)
       IN IF HasSlot(ts, max_calls)
          THEN /\ usage' = Store(usage, id, AfterAdmit(ts, now))
               /\ admitted' = [admitted EXCEPT ![id] = Append(@, now)]
               /\ requests' = (requests (-) One(q)) (+) One(Call(q.client, "handler", now))
               /\ UNCHANGED last
          ELSE /\ usage' = Store(usage, id, AfterReject(ts, now))
               /\ last' = IF ts = <<>> THEN IndexError(q.client)
                          ELSE RateLimited(q.client, Wait(ts, now, period), now)
               /\ requests' = requests (-) One(q)
               /\ UNCHANGED admitted

\* wrapper, from its call to its first await or raise (lines 17-45)
Wrapper(q) ==
    /\ BagIn(q, requests)
    /\ \/ RejectNoClient(q)
       \/ Check(q)
    /\ UNCHANGED <<max_calls, period, clock>>

\* line 38: func(request) returns and wrapper returns its result
HandlerReturn(q) ==
    /\ BagIn(q, requests)
    /\ q.pc = "handler"
    /\ requests' = requests (-) One(q)
    /\ last' = Ok(q.client)
    /\ UNCHANGED <<max_calls, period, usage, clock, admitted>>

\* line 38: func(request) raises and the exception propagates
\* faulty variant: the failed call gives its slot back
HandlerRaiseRefund(q) ==
    /\ BagIn(q, requests)
    /\ q.pc = "handler"
    /\ requests' = requests (-) One(q)
    /\ last' = HandlerError(q.client)
    /\ usage' = [usage EXCEPT ![Hash(q.client)] = SelectSeq(@, LAMBDA t : t # q.now)]
    /\ UNCHANGED <<max_calls, period, clock, admitted>>
HandlerRaise(q) ==
    /\ BagIn(q, requests)
    /\ q.pc = "handler"
    /\ requests' = requests (-) One(q)
    /\ last' = HandlerError(q.client)
    /\ UNCHANGED <<max_calls, period, usage, clock, admitted>>

Next ==
    \/ Tick
    \/ \E c \in Clients : Arrive(c)
    \/ \E q \in BagToSet(requests) : Wrapper(q)
    \/ \E q \in BagToSet(requests) : HandlerReturn(q)
    \/ \E q \in BagToSet(requests) : HandlerRaise(q)

Spec == Init /\ [][Next]_vars
\* the same program, built with whatever rate_limit accepts
SpecAnyConfig == InitAny /\ [][Next]_vars

TypeOK ==
    /\ clock \in Time
    /\ max_calls \in 0..MaxCalls /\ period \in 0..MaxPeriod
    /\ DOMAIN usage \subseteq Digests
    /\ \A k \in DOMAIN usage : \A i \in 1..Len(usage[k]) : usage[k][i] \in Time
    /\ IsABag(requests)
    /\ BagCardinality(requests) <= NumRequests
    /\ \A q \in BagToSet(requests) :
          /\ q.client \in Clients
          /\ q.pc \in {"pending", "handler"}
          /\ q.now \in Time \cup {NotRead}

\* ---- vocabulary of the properties ----------------------------------------

\* number of entries t of h with lo <= t < hi
CountIn(h, lo, hi) == Cardinality({i \in 1..Len(h) : lo <= h[i] /\ h[i] < hi})

\* number of entries t of h with now - t < p
Recent(h, now, p) == Cardinality({i \in 1..Len(h) : now - h[i] < p})

\* h without the entries t that have now - t >= p, order kept
RECURSIVE Retained(_, _, _)
Retained(h, now, p) ==
    IF h = <<>> THEN <<>>
    ELSE (IF now - Head(h) < p THEN <<Head(h)>> ELSE <<>>)
         \o Retained(Tail(h), now, p)

\* this step runs wrapper for the pending call q (only wrapper takes a
\* pending call out of the bag)
Ran(q) == q.pc = "pending" /\ CopiesIn(q, requests') < CopiesIn(q, requests)

\* number of calls of client c in bag b whose handler is running
RECURSIVE SumCopies(_, _)
SumCopies(b, qs) ==
    IF qs = {} THEN 0
    ELSE LET q == CHOOSE x \in qs : TRUE
         IN CopiesIn(q, b) + SumCopies(b, qs \ {q})
Running(b, c) ==
    SumCopies(b, {q \in BagToSet(b) : q.client = c /\ q.pc = "handler"})

\* this step starts the protected handler for client c
Started(c) == Running(requests', c) > Running(requests, c)

\* a handler of client c is running, a call of client c has not run yet
Serving(c) == Running(requests, c) > 0
Waiting(c) == BagIn(Call(c, "pending", NotRead), requests)

\* wrapper calls that have a client address
Checks == {q \in BagToSet(requests) : q.client # None}

Full(ip) == Recent(Window(usage, Hash(ip)), clock, period) = max_calls

\* C1: for one key, no half-open interval of length period holds more than
\* max_calls admitted timestamps, and a check that arrives while max_calls
\* admitted timestamps lie in the trailing period is rejected.
C1_SlidingWindowLimit ==
    /\ [](\A ip \in IPs : \A s \in 0..clock :
             CountIn(admitted[Hash(ip)], s, s + period) <= max_calls)
    /\ [][\A q \in Checks :
             (Ran(q) /\ Recent(admitted[Hash(q.client)], clock, period) >= max_calls)
             => /\ ~Started(q.client)
                /\ last'.status = 429
                /\ last'.client = q.client
                /\ admitted' = admitted]_vars

\* a key that was limited, aged out, was admitted again and is limited again
C1_Witness ==
    /\ last.status = 429
    /\ Len(admitted[Hash(last.client)]) > max_calls
    /\ Recent(admitted[Hash(last.client)], clock, period) = max_calls

\* C2: a call is admitted only when, in the state the admitting step starts
\* from, the pruned window of its key has a free slot; so two calls of one
\* key in flight together never both take the last slot.
C2_AtomicCheckThenAct ==
    [][\A ip \in IPs :
         Started(ip)
         => /\ Recent(Window(usage, Hash(ip)), clock, period) < max_calls
            /\ Len(usage'[Hash(ip)]) <= max_calls]_vars

\* two calls of one key in flight, one slot left: one has just taken it and
\* the other has not run yet
C2_Witness ==
    \E ip \in IPs :
        /\ Serving(ip)
        /\ Waiting(ip)
        /\ Full(ip)
        /\ usage[Hash(ip)][Len(usage[Hash(ip)])] = clock

\* C3: the wait of a rejection is positive and at most period.
C3_WaitInRange ==
    last.status = 429 => (0 < last.wait /\ last.wait <= period)

\* a rejection issued after part of the period has gone by
C3_Witness == last.status = 429 /\ last.wait < period

\* C4: after every step the window of every key holds at most max_calls
\* timestamps.
C4_WindowBounded ==
    \A k \in DOMAIN usage : Len(usage[k]) <= max_calls

\* a full window right after a rejection
C4_Witness ==
    /\ last.status = 429
    /\ Len(usage[Hash(last.client)]) = max_calls
    /\ Len(admitted[Hash(last.client)]) > max_calls

\* C5: a rejected check leaves its key's window equal to the old window
\* without the timestamps t that have now - t >= period, leaves every other
\* window as it was and records no admission.
C5_RejectOnlyPrunes ==
    [][\A q \in Checks :
         (Ran(q) /\ ~Started(q.client))
         => LET id == Hash(q.client)
            IN /\ last'.status = 429
               /\ DOMAIN usage' = DOMAIN usage \cup {id}
               /\ usage'[id] = Retained(Window(usage, id), clock, period)
               /\ \A k \in DOMAIN usage \ {id} : usage'[k] = usage[k]
               /\ admitted' = admitted]_vars

\* a rejection whose window holds fewer timestamps than the key's history
C5_Witness ==
    /\ last.status = 429
    /\ Len(usage[Hash(last.client)]) < Len(admitted[Hash(last.client)])
    /\ usage[Hash(last.client)][1] = clock - (period - last.wait)

\* whether a check of address ip at time now would be admitted, given dict u
WouldAdmit(u, ip, now) == Recent(Window(u, Hash(ip)), now, period) < max_calls

\* C6: a check of one client leaves the window of every other client as it
\* was (present or absent) and does not change what a check of that other
\* client would decide.
C6_KeysIndependent ==
    [][\A q \in Checks :
         Ran(q)
         => \A ip \in IPs \ {q.client} :
               /\ (Hash(ip) \in DOMAIN usage') = (Hash(ip) \in DOMAIN usage)
               /\ Window(usage', Hash(ip)) = Window(usage, Hash(ip))
               /\ WouldAdmit(usage', ip, clock') = WouldAdmit(usage, ip, clock)]_vars

\* one client has just been rejected on a full window while another client,
\* admitted at the same time, still has a free slot
C6_Witness ==
    \E ip \in IPs :
        /\ last.status = 429
        /\ last.client # ip
        /\ Full(last.client)
        /\ Serving(ip)
        /\ Hash(ip) \in DOMAIN usage
        /\ usage[Hash(ip)] = <<clock>>
        /\ WouldAdmit(usage, ip, clock)

\* C7: a limiter built with max_calls <= 0 or period <= 0 is never used: no
\* request ever reaches its usage mapping.
C7_InvalidConfigUnusable ==
    (max_calls <= 0 \/ period <= 0) => DOMAIN usage = {}

\* C8: no wrapper call of a built limiter ends in an error of the check
\* itself.
C8_CheckAlwaysDecides == last.exc # "IndexError"

\* C9: a check is admitted exactly when fewer than max_calls of the
\* timestamps admitted before it for its key have now - t < period; an
\* admitted timestamp with now - t = period no longer counts.
C9_ReferenceRule ==
    [][\A q \in Checks :
         Ran(q)
         => LET id == Hash(q.client)
                n == Recent(admitted[id], clock, period)
            IN IF n < max_calls
               THEN /\ Started(q.client)
                    /\ admitted'[id] = Append(admitted[id], clock)
                    /\ last' = last
               ELSE /\ ~Started(q.client)
                    /\ admitted' = admitted
                    /\ last'.status = 429]_vars

\* a call admitted only because a timestamp exactly period old aged out
C9_Witness ==
    \E ip \in IPs :
        LET h == admitted[Hash(ip)]
            before == SubSeq(h, 1, Len(h) - 1)
        IN /\ Len(h) > 0
           /\ h[Len(h)] = clock
           /\ Serving(ip)
           /\ CountIn(before, clock - period, clock + 1) >= max_calls
           /\ Recent(before, clock, period) < max_calls

\* C10: a request without a client address gets the 400 error, and its
\* wrapper call changes no window, creates no key, records no admission and
\* starts no handler.
C10_NoClientRejectedEarly ==
    [][\A q \in BagToSet(requests) :
         (Ran(q) /\ q.client = None)
         => /\ last' = NoClientError
            /\ usage' = usage
            /\ admitted' = admitted
            /\ \A c \in Clients : ~Started(c)]_vars

\* a request without a client refused while windows exist and a handler runs
C10_Witness ==
    /\ last.status = 400
    /\ DOMAIN usage # {}
    /\ \E ip \in IPs : Serving(ip)

\* this step ends the handler of the running call q
Finished(q) == q.pc = "handler" /\ CopiesIn(q, requests') < CopiesIn(q, requests)

\* d hundredths is the hundredth nearest to w ticks
Nearest(w, d) ==
    /\ (2 * d - 1) * TicksPerCenti <= 2 * w
    /\ 2 * w < (2 * d + 1) * TicksPerCenti

\* C11: the protected endpoint is started exactly once by each admission and
\* by nothing else, its result is what the caller gets, and a rejected call
\* starts no endpoint and gets a 429 whose detail is the wait of line 41
\* written to the nearest hundredth.
C11_HandlerOncePerAdmit ==
    [][/\ \A ip \in IPs :
            /\ Started(ip)
               <=> admitted'[Hash(ip)] = Append(admitted[Hash(ip)], clock)
            /\ Started(ip)
               => /\ Running(requests', ip) = Running(requests, ip) + 1
                  /\ BagCardinality(requests') = BagCardinality(requests)
                  /\ \E q \in Checks : q.client = ip /\ Ran(q)
       /\ \A q \in Checks :
            (Ran(q) /\ ~Started(q.client))
            => LET w == Retained(Window(usage, Hash(q.client)), clock, period)
               IN /\ \A c \in Clients : Running(requests', c) = Running(requests, c)
                  /\ last'.status = 429
                  /\ last'.client = q.client
                  /\ last'.wait = period - (clock - w[1])
                  /\ Nearest(last'.wait, last'.detail)
       /\ \A q \in BagToSet(requests) :
            Finished(q)
            => /\ Running(requests', q.client) = Running(requests, q.client) - 1
               /\ \A c \in Clients : ~Started(c)
               /\ \/ last'.status = 200 /\ last'.body = Func(q.client)
                  \/ last'.exc = "HandlerError"]_vars

\* the result of an admitted call delivered while another call of the same
\* client, admitted too, is still being served
C11_Witness ==
    /\ last.status = 200
    /\ last.body = <<"message", "Hello, World!">>
    /\ Serving(last.client)
    /\ Len(admitted[Hash(last.client)]) >= 2

\* C12: pruning an already pruned window at the same now removes nothing;
\* on a pruned window the decision is taken on the window as it is, a call
\* that follows an admitted call at the same now is decided with that call's
\* timestamp counted, and a rejection repeated at the same now gives the same
\* response and changes neither windows nor history.
C12_PruneIdempotent ==
    /\ [](\A k \in DOMAIN usage :
             Prune(Prune(usage[k], clock, period), clock, period)
                = Prune(usage[k], clock, period))
    /\ [][\A q \in Checks :
             Ran(q)
             => LET c == q.client
                    id == Hash(c)
                    w == Window(usage, id)
                    pruned == \A i \in 1..Len(w) : clock - w[i] < period
                    repeated == /\ last.status = 429
                                /\ last.client = c
                                /\ last.at = clock
                IN /\ pruned
                      => /\ Started(c) <=> Len(w) < max_calls
                         /\ Started(c) => usage'[id] = Append(w, clock)
                         /\ ~Started(c) => usage'[id] = w
                         /\ Started(c)
                            => (WouldAdmit(usage', c, clock)
                                  <=> Len(w) + 1 < max_calls)
                   /\ repeated
                      => /\ pruned
                         /\ ~Started(c)
                         /\ last' = last
                         /\ usage' = usage
                         /\ admitted' = admitted]_vars

\* two calls of one client at the same now: the first admitted and still
\* served, the second rejected on the window that holds the first's timestamp
C12_Witness ==
    /\ last.status = 429
    /\ last.at = clock
    /\ \E q \in BagToSet(requests) :
          q.client = last.client /\ q.pc = "handler" /\ q.now = clock
    /\ Waiting(last.client)

MinOf(S) == CHOOSE x \in S : \A y \in S : x <= y

\* C13: the wait of a rejection is period - (now - oldest), oldest being the
\* least timestamp of the pruned window, and that timestamp is the first
\* element of the list.
C13_WaitFromOldest ==
    [][\A q \in Checks :
         (Ran(q) /\ ~Started(q.client))
         => LET id == Hash(q.client)
                w == Retained(Window(usage, id), clock, period)
                oldest == MinOf({w[i] : i \in 1..Len(w)})
            IN /\ w # <<>>
               /\ last'.wait = period - (clock - oldest)
               /\ last'.at = clock
               /\ usage'[id][1] = oldest]_vars

\* a rejection on a window whose oldest and newest timestamps differ
C13_Witness ==
    /\ last.status = 429
    /\ LET w == usage[Hash(last.client)]
       IN /\ Len(w) >= 2
          /\ w[1] < w[Len(w)]
          /\ last.wait = period - (last.at - w[1])

\* C14: in every window the timestamps are in non-decreasing order.
C14_WindowSorted ==
    \A k \in DOMAIN usage :
        \A i, j \in 1..Len(usage[k]) : i < j => usage[k][i] <= usage[k][j]

\* a window of two timestamps taken at different times
C14_Witness ==
    \E k \in DOMAIN usage : Len(usage[k]) >= 2 /\ usage[k][1] < usage[k][2]

\* C15: the list that a check counts (line 36) and reads the oldest
\* timestamp of (line 41) holds only timestamps t with now - t < period, and
\* nothing but a check changes a window: stale timestamps stay until the
\* next check of their key.
C15_FreshWhenRead ==
    /\ [][\A q \in Checks :
             Ran(q)
             => LET w == usage'[Hash(q.client)]
                IN \A i \in 1..Len(w) : clock - w[i] < period]_vars
    /\ [][usage' # usage => \E q \in Checks : Ran(q)]_vars

\* one key has just been checked while the window of another key still holds
\* a stale timestamp
C15_Witness ==
    \E k1, k2 \in DOMAIN usage :
        /\ k1 # k2
        /\ usage[k1] # <<>>
        /\ usage[k1][Len(usage[k1])] = clock
        /\ \E i \in 1..Len(usage[k2]) : clock - usage[k2][i] >= period

\* no admission of the key of the last response after that response
NoneAdmittedSince ==
    \A i \in 1..Len(admitted[Hash(last.client)]) :
        admitted[Hash(last.client)][i] <= last.at

\* the last response is a rejection of client c that still stands
Promised(c) == last.status = 429 /\ last.client = c /\ NoneAdmittedSince

\* C16: a check of a key made at or after now + wait of that key's last
\* rejection, with no admission of the key in between, is admitted; a
\* rejection in between promises the same instant now + wait again, which is
\* the instant the oldest timestamp of the window ages out.
C16_WaitSufficient ==
    [][\A q \in Checks :
         Ran(q)
         => LET c == q.client
                id == Hash(c)
                w == Window(usage, id)
            IN /\ (Promised(c) /\ clock >= last.at + last.wait) => Started(c)
               /\ (Promised(c) /\ ~Started(c))
                  => last'.at + last'.wait = last.at + last.wait
               /\ (w # <<>> /\ clock >= w[1] + period) => Started(c)
               /\ ~Started(c)
                  => /\ last'.at + last'.wait = usage'[id][1] + period
                     /\ usage'[id][1] = w[1]]_vars

\* a client rejected earlier is admitted exactly when the promised wait is over
C16_Witness ==
    /\ last.status = 429
    /\ last.at < clock
    /\ clock = last.at + last.wait
    /\ \E q \in BagToSet(requests) :
          q.client = last.client /\ q.pc = "handler" /\ q.now = clock
    /\ \A i \in 1..Len(admitted[Hash(last.client)]) :
          LET t == admitted[Hash(last.client)][i] IN t <= last.at \/ t = clock

\* C17: the mapping starts empty, a key enters it in the step that runs the
\* first check of that key and in no other way, and no key ever leaves it.
C17_KeysOnlyGrow ==
    /\ DOMAIN usage = {}
    /\ [][DOMAIN usage' =
             DOMAIN usage \cup {Hash(q.client) : q \in {x \in Checks : Ran(x)}}]_vars
    /\ [](\A ip \in IPs : Hash(ip) \in DOMAIN usage <=> admitted[Hash(ip)] # <<>>)

\* both keys are in the mapping and all timestamps of one of them are stale
C17_Witness ==
    /\ Cardinality(DOMAIN usage) = 2
    /\ \E k \in DOMAIN usage :
          /\ usage[k] # <<>>
          /\ \A i \in 1..Len(usage[k]) : clock - usage[k][i] >= period

\* number of running handlers of client c in bag b admitted in [lo, hi)
RunningIn(b, c, lo, hi) ==
    SumCopies(b, {q \in BagToSet(b) :
                    /\ q.client = c
                    /\ q.pc = "handler"
                    /\ lo <= q.now
                    /\ q.now < hi})

\* number of entries of h equal to t
CountEq(h, t) == Cardinality({i \in 1..Len(h) : h[i] = t})

\* C18: a handler starts with its timestamp already in the window; running
\* handlers of one key admitted within one period never number more than
\* max_calls, each of them admitted less than a period ago has its timestamp
\* in the window, and the end of a handler, failure included, changes no
\* window.
C18_SlotHeldWhileRunning ==
    /\ [](\A ip \in IPs :
             /\ \A s \in 0..clock :
                   RunningIn(requests, ip, s, s + period) <= max_calls
             /\ \A t \in 0..clock :
                   clock - t < period
                   => RunningIn(requests, ip, t, t + 1)
                         <= CountEq(Window(usage, Hash(ip)), t))
    /\ [][\A ip \in IPs :
             Started(ip)
             => /\ usage'[Hash(ip)][Len(usage'[Hash(ip)])] = clock
                /\ RunningIn(requests', ip, clock, clock + 1)
                      = RunningIn(requests, ip, clock, clock + 1) + 1]_vars
    /\ [][\A q \in BagToSet(requests) :
             Finished(q) => usage' = usage /\ admitted' = admitted]_vars

\* a handler has failed and its timestamp alone keeps the window full
C18_Witness ==
    /\ last.exc = "HandlerError"
    /\ Full(last.client)
    /\ ~Serving(last.client)
    /\ Waiting(last.client)
====
